---- MODULE Spec2Model ----
(***************************************************************************)
(* A model of todo.py: the JSON store (load_todos / _normalize_todo /      *)
(* save_todos), the date parser (parse_date) and the three mutating        *)
(* operations (add_todo, complete_todo, remove_todo) plus list_todos.      *)
(*                                                                         *)
(* Text is modelled below the level of Python values: a str is a sequence  *)
(* of one-character strings, a file is a sequence of JSON tokens (the      *)
(* insignificant whitespace of indent=2 is left out), so json.dumps and    *)
(* json.loads are a printer and a recursive-descent parser and not the     *)
(* identity.                                                               *)
(***************************************************************************)
EXTENDS Integers, Sequences, FiniteSets, TLC

VARIABLES
    target,    \* the file at TODO_FILE: [exists, toks]
    tmp,       \* the file at TODO_FILE + ".tmp" that save_todos writes first
    year,      \* date.today().year
    call,      \* the last call made: [op, task, due, index]
    out,       \* what that call printed (the message, or the exception raised)
    ret,       \* what that call returned or listed
    pc,        \* where the running process stands inside save_todos, or "idle"
    mem,       \* the collection handed to save_todos
    crashes,   \* how often a process was killed so far
    staleTmp   \* whether the last open of the temporary file found one there

vars == <<target, tmp, year, call, out, ret, pc, mem, crashes, staleTmp>>

(***************************************************************************)
(* Bounds of the model.                                                    *)
(***************************************************************************)
\* longest collection an Add may still extend
MaxLen == 2
\* number of array elements of a hand-edited file
MaxHand == 2
\* number of interrupts of the process in the crash specification
MaxCrashes == 2
\* most tokens one write call moves to the temporary file
MaxPiece == 4

(***************************************************************************)
(* Python str: sequences of characters.                                    *)
(***************************************************************************)
Whitespace == {" "}

Digits == <<"0", "1", "2", "3", "4", "5", "6", "7", "8", "9">>

IsDigit(c) == \E i \in 1..Len(Digits) : Digits[i] = c

DigitVal(c) == (CHOOSE i \in 1..Len(Digits) : Digits[i] = c) - 1

RECURSIVE lstrip(_)
lstrip(s) ==
    IF s # <<>> /\ Head(s) \in Whitespace THEN lstrip(Tail(s)) ELSE s

RECURSIVE rstrip(_)
rstrip(s) ==
    IF s # <<>> /\ s[Len(s)] \in Whitespace
    THEN rstrip(SubSeq(s, 1, Len(s) - 1))
    ELSE s

\* str.strip()
strip(s) == rstrip(lstrip(s))

\* the keys the program reads and writes
K_task == <<"t", "a", "s", "k">>
K_done == <<"d", "o", "n", "e">>
K_due == <<"d", "u", "e">>

(***************************************************************************)
(* Python values as json.loads builds them.                                *)
(***************************************************************************)
PyNone == [ty |-> "None"]
PyStr(s) == [ty |-> "str", s |-> s]
PyBool(b) == [ty |-> "bool", b |-> b]
PyInt(n) == [ty |-> "int", n |-> n]
PyList(xs) == [ty |-> "list", items |-> xs]
PyDict(d) == [ty |-> "dict", d |-> d]

EmptyDict == [k \in {} |-> PyNone]

\* dict.get(key, default)
Get(v, key, default) == IF key \in DOMAIN v.d THEN v.d[key] ELSE default

\* bool(x), and the truth value of x in `if x:'
Truthy(v) ==
    CASE v.ty = "None" -> FALSE
      [] v.ty = "bool" -> v.b
      [] v.ty = "int" -> v.n # 0
      [] v.ty = "str" -> v.s # <<>>
      [] v.ty = "list" -> v.items # <<>>
      [] v.ty = "dict" -> DOMAIN v.d # {}

(***************************************************************************)
(* JSON text as a sequence of tokens.  Two more tokens stand for file      *)
(* content that is no JSON at all: "junk" is text json.loads rejects,      *)
(* "bytes" is a byte sequence that is not valid in the file's encoding.    *)
(***************************************************************************)
Tok(t) == [t |-> t]
TokStr(s) == [t |-> "str", s |-> s]
TokNum(n) == [t |-> "num", n |-> n]

\* the keys of a dict in the order json.dumps prints them: insertion order,
\* which is task, done, due for every dict the program builds (lines 20-23
\* and 108-112)
RECURSIVE SetToSeq(_)
SetToSeq(S) ==
    IF S = {} THEN <<>>
    ELSE LET x == CHOOSE y \in S : TRUE IN <<x>> \o SetToSeq(S \ {x})

KeyOrder(d) ==
    SelectSeq(<<K_task, K_done, K_due>>, LAMBDA k : k \in DOMAIN d)
    \o SetToSeq(DOMAIN d \ {K_task, K_done, K_due})

RECURSIVE DumpValue(_)
RECURSIVE DumpItems(_)
RECURSIVE DumpMembers(_, _)

DumpItems(xs) ==
    IF xs = <<>> THEN <<>>
    ELSE IF Len(xs) = 1 THEN DumpValue(xs[1])
    ELSE DumpValue(xs[1]) \o <<Tok(",")>> \o DumpItems(Tail(xs))

DumpMembers(d, keys) ==
    IF keys = <<>> THEN <<>>
    ELSE <<TokStr(keys[1]), Tok(":")>> \o DumpValue(d[keys[1]])
         \o (IF Len(keys) = 1 THEN <<>> ELSE <<Tok(",")>> \o DumpMembers(d, Tail(keys)))

DumpValue(v) ==
    CASE v.ty = "str" -> <<TokStr(v.s)>>
      [] v.ty = "bool" -> <<Tok(IF v.b THEN "true" ELSE "false")>>
      [] v.ty = "int" -> <<TokNum(v.n)>>
      [] v.ty = "None" -> <<Tok("null")>>
      [] v.ty = "list" -> <<Tok("[")>> \o DumpItems(v.items) \o <<Tok("]")>>
      [] v.ty = "dict" -> <<Tok("{")>> \o DumpMembers(v.d, KeyOrder(v.d)) \o <<Tok("}")>>

\* json.dumps(todos, indent=2)
json_dumps(todos) == DumpValue(PyList(todos))

(***************************************************************************)
(* json.loads: a recursive-descent parser over the tokens.  A parse is     *)
(* [ok, v, next]: the value read and the position after it.                *)
(***************************************************************************)
ParseFail == [ok |-> FALSE, v |-> PyNone, next |-> 0]
Parsed(v, next) == [ok |-> TRUE, v |-> v, next |-> next]

RECURSIVE ParseValue(_, _)
RECURSIVE ParseElems(_, _, _)
RECURSIVE ParseMembers(_, _, _)

\* the elements of an array from position i, after "[" or ","
ParseElems(toks, i, acc) ==
    LET e == ParseValue(toks, i) IN
    IF ~e.ok \/ e.next > Len(toks) THEN ParseFail
    ELSE IF toks[e.next].t = "," THEN ParseElems(toks, e.next + 1, Append(acc, e.v))
    ELSE IF toks[e.next].t = "]" THEN Parsed(PyList(Append(acc, e.v)), e.next + 1)
    ELSE ParseFail

\* the members of an object from position i, after "{" or ","; a repeated
\* key keeps its last value
ParseMembers(toks, i, acc) ==
    IF i + 1 > Len(toks) \/ toks[i].t # "str" \/ toks[i + 1].t # ":" THEN ParseFail
    ELSE LET e == ParseValue(toks, i + 2) IN
         IF ~e.ok \/ e.next > Len(toks) THEN ParseFail
         ELSE LET d == (toks[i].s :> e.v) @@ acc IN
              IF toks[e.next].t = "," THEN ParseMembers(toks, e.next + 1, d)
              ELSE IF toks[e.next].t = "}" THEN Parsed(PyDict(d), e.next + 1)
              ELSE ParseFail

ParseValue(toks, i) ==
    IF i > Len(toks) THEN ParseFail
    ELSE LET k == toks[i] IN
         CASE k.t = "str" -> Parsed(PyStr(k.s), i + 1)
           [] k.t = "num" -> Parsed(PyInt(k.n), i + 1)
           [] k.t = "true" -> Parsed(PyBool(TRUE), i + 1)
           [] k.t = "false" -> Parsed(PyBool(FALSE), i + 1)
           [] k.t = "null" -> Parsed(PyNone, i + 1)
           [] k.t = "[" ->
                IF i + 1 <= Len(toks) /\ toks[i + 1].t = "]"
                THEN Parsed(PyList(<<>>), i + 2)
                ELSE ParseElems(toks, i + 1, <<>>)
           [] k.t = "{" ->
                IF i + 1 <= Len(toks) /\ toks[i + 1].t = "}"
                THEN Parsed(PyDict(EmptyDict), i + 2)
                ELSE ParseMembers(toks, i + 1, EmptyDict)
           [] OTHER -> ParseFail

\* json.loads(text): [ok, v]; ok is FALSE where it raises JSONDecodeError
\* (no value, or text left over after the value)
json_loads(toks) ==
    LET p == ParseValue(toks, 1) IN
    IF p.ok /\ p.next = Len(toks) + 1 THEN p ELSE ParseFail

(***************************************************************************)
(* The store.                                                              *)
(***************************************************************************)
Absent == [exists |-> FALSE, toks |-> <<>>]
File(toks) == [exists |-> TRUE, toks |-> toks]

\* task.strip() is non-empty, for a str
NonBlank(v) == v.ty = "str" /\ strip(v.s) # <<>>

\* a variant that hands the parsed item on as it is
NormalizedAsIs(item) == item

\* a variant that keeps the task trimmed
NormalizedTrimmed(item) ==
    LET task == PyStr(strip(Get(item, K_task, PyNone).s))
        done == Get(item, K_done, PyBool(FALSE))
        due == Get(item, K_due, PyNone)
        todo == (K_task :> task) @@ (K_done :> PyBool(Truthy(done)))
    IN  IF due.ty = "str" /\ strip(due.s) # <<>>
        THEN PyDict(todo @@ (K_due :> due)) ELSE PyDict(todo)

\* the dict _normalize_todo builds for a valid item
NormalizedOf(item) ==
    LET task == Get(item, K_task, PyNone)
        done == Get(item, K_done, PyBool(FALSE))
        due == Get(item, K_due, PyNone)
        todo == (K_task :> task) @@ (K_done :> PyBool(Truthy(done)))
    IN  IF NonBlank(due) THEN PyDict(todo @@ (K_due :> due)) ELSE PyDict(todo)

\* the test of task on line 18
TaskOk(task) == NonBlank(task)

_normalize_todo(item) ==
    IF item.ty # "dict" THEN PyNone
    ELSE IF ~TaskOk(Get(item, K_task, PyNone)) THEN PyNone
    ELSE NormalizedOf(item)

\* the loop of lines 36-41
RECURSIVE NormalizeAll(_)
NormalizeAll(data) ==
    IF data = <<>> THEN <<>>
    ELSE LET normalized == _normalize_todo(Head(data)) IN
         IF normalized # PyNone
         THEN <<normalized>> \o NormalizeAll(Tail(data))
         ELSE NormalizeAll(Tail(data))

\* Path.read_text(): the text, or UnicodeDecodeError for bytes that are not
\* valid in the encoding
Undecodable(f) == \E i \in 1..Len(f.toks) : f.toks[i].t = "bytes"

\* load_todos(): exc names the exception that leaves the function ("" for
\* none); only json.JSONDecodeError is caught (line 32)
load_todos(f) ==
    IF ~f.exists THEN [exc |-> "", todos |-> <<>>]
    ELSE IF Undecodable(f) THEN [exc |-> "UnicodeDecodeError", todos |-> <<>>]
    ELSE LET data == json_loads(f.toks) IN
         IF ~data.ok THEN [exc |-> "", todos |-> <<>>]
         ELSE IF data.v.ty # "list" THEN [exc |-> "", todos |-> <<>>]
         ELSE [exc |-> "", todos |-> NormalizeAll(data.v.items)]

\* the file save_todos leaves at TODO_FILE: the whole serialization, moved
\* there by os.replace
save_todos(todos) == File(json_dumps(todos))

(***************************************************************************)
(* Dates.  datetime.strptime(date_str, fmt) for the three formats of       *)
(* parse_date: every format is digit fields around one separator, so the   *)
(* string is cut at the separator and each field must be a whole match of  *)
(* its directive (strptime raises when text is left over).                 *)
(***************************************************************************)
\* the fields of s between the occurrences of sep
RECURSIVE Split(_, _)
Split(s, sep) ==
    IF \A i \in 1..Len(s) : s[i] # sep THEN <<s>>
    ELSE LET i == CHOOSE j \in 1..Len(s) :
                      s[j] = sep /\ \A k \in 1..(j - 1) : s[k] # sep
         IN  <<SubSeq(s, 1, i - 1)>> \o Split(SubSeq(s, i + 1, Len(s)), sep)

\* %Y is \d\d\d\d
MatchY(f) == Len(f) = 4 /\ \A i \in 1..4 : IsDigit(f[i])

\* %m is 1[0-2]|0[1-9]|[1-9]
MatchM(f) ==
    \/ Len(f) = 2 /\ f[1] = "1" /\ f[2] \in {"0", "1", "2"}
    \/ Len(f) = 2 /\ f[1] = "0" /\ IsDigit(f[2]) /\ f[2] # "0"
    \/ Len(f) = 1 /\ IsDigit(f[1]) /\ f[1] # "0"

\* %d is 3[01]|[12]\d|0[1-9]|[1-9]| [1-9]
MatchD(f) ==
    \/ Len(f) = 2 /\ f[1] = "3" /\ f[2] \in {"0", "1"}
    \/ Len(f) = 2 /\ f[1] \in {"1", "2"} /\ IsDigit(f[2])
    \/ Len(f) = 2 /\ f[1] \in {"0", " "} /\ IsDigit(f[2]) /\ f[2] # "0"
    \/ Len(f) = 1 /\ IsDigit(f[1]) /\ f[1] # "0"

\* int() of a matched field (the blank of " 5" counts as nothing)
RECURSIVE FieldVal(_)
FieldVal(f) ==
    IF f = <<>> THEN 0
    ELSE (IF IsDigit(f[Len(f)]) THEN DigitVal(f[Len(f)]) ELSE 0)
         + 10 * FieldVal(SubSeq(f, 1, Len(f) - 1))

IsLeap(y) == y % 4 = 0 /\ (y % 100 # 0 \/ y % 400 = 0)

DaysInMonth(y, m) ==
    IF m = 2 THEN (IF IsLeap(y) THEN 29 ELSE 28)
    ELSE IF m \in {4, 6, 9, 11} THEN 30 ELSE 31

\* the datetime constructor accepts (y, m, d); it raises ValueError otherwise
ValidDate(y, m, d) ==
    /\ y \in 1..9999
    /\ m \in 1..12
    /\ d \in 1..DaysInMonth(y, m)

NoDate == [ok |-> FALSE, y |-> 0, m |-> 0, d |-> 0]
Date(y, m, d) == IF ValidDate(y, m, d) THEN [ok |-> TRUE, y |-> y, m |-> m, d |-> d] ELSE NoDate

\* the year strptime gives a date whose format has no %Y
DefaultYear == 1900

\* datetime.strptime(s, "%Y-%m-%d")
StrptimeIso(s) ==
    LET f == Split(s, "-") IN
    IF Len(f) = 3 /\ MatchY(f[1]) /\ MatchM(f[2]) /\ MatchD(f[3])
    THEN Date(FieldVal(f[1]), FieldVal(f[2]), FieldVal(f[3]))
    ELSE NoDate

\* datetime.strptime(s, "%m/%d/%Y")
StrptimeUs(s) ==
    LET f == Split(s, "/") IN
    IF Len(f) = 3 /\ MatchM(f[1]) /\ MatchD(f[2]) /\ MatchY(f[3])
    THEN Date(FieldVal(f[3]), FieldVal(f[1]), FieldVal(f[2]))
    ELSE NoDate

\* datetime.strptime(s, "%m/%d"): the date is built in the default year
StrptimeShort(s) ==
    LET f == Split(s, "/") IN
    IF Len(f) = 2 /\ MatchM(f[1]) /\ MatchD(f[2])
    THEN Date(DefaultYear, FieldVal(f[1]), FieldVal(f[2]))
    ELSE NoDate

\* parsed.replace(year=y)
ReplaceYear(dt, y) == Date(y, dt.m, dt.d)

TwoDigits(n) == <<Digits[(n \div 10) + 1], Digits[(n % 10) + 1]>>

\* %Y of strftime: the year in decimal (the C library does not pad it)
RECURSIVE Decimal(_)
Decimal(n) ==
    IF n < 10 THEN <<Digits[n + 1]>>
    ELSE Decimal(n \div 10) \o <<Digits[(n % 10) + 1]>>

\* parsed.strftime("%Y-%m-%d")
Strftime(dt) == Decimal(dt.y) \o <<"-">> \o TwoDigits(dt.m) \o <<"-">> \o TwoDigits(dt.d)

\* parse_date(date_str) when date.today().year is thisYear: the first
\* format that parses wins; a ValueError of strptime or of replace moves on
\* to the next format
parse_date(s, thisYear) ==
    LET iso == StrptimeIso(s)
        us == StrptimeUs(s)
        short == StrptimeShort(s)
        moved == IF short.ok THEN ReplaceYear(short, thisYear) ELSE NoDate
    IN  IF iso.ok THEN PyStr(Strftime(iso))
        ELSE IF us.ok THEN PyStr(Strftime(us))
        ELSE IF moved.ok THEN PyStr(Strftime(moved))
        ELSE PyNone

(***************************************************************************)
(* Inputs: the arguments the operations are called with and the files a    *)
(* user may have left at TODO_FILE.                                        *)
(***************************************************************************)
S_a == <<"a">>
S_padded == <<" ", "b">>
S_blank == <<" ">>
S_empty == <<>>
S_x == <<"x">>
S_date == <<"2", "0", "2", "8", "-", "0", "1", "-", "0", "5">>
S_extra == <<"e", "x", "t", "r", "a">>

\* task arguments of add_todo
Tasks == {S_a, S_blank}

\* due arguments of add_todo: None, "", "x", "1/5"
DueArgs == {PyNone, PyStr(S_empty), PyStr(S_x), PyStr(<<"1", "/", "5">>)}

\* date.today().year: a common year and a leap year
Years == {2027, 2028}

\* index arguments of complete_todo and remove_todo
Indices == (-1)..(MaxLen + 1)

\* array elements of a hand-edited file, as text
ElemPlain ==
    <<Tok("{"), TokStr(K_task), Tok(":"), TokStr(S_a), Tok(","),
      TokStr(K_done), Tok(":"), Tok("false"), Tok("}")>>
ElemExtra ==
    <<Tok("{"), TokStr(K_done), Tok(":"), TokStr(S_x), Tok(","),
      TokStr(K_task), Tok(":"), TokStr(S_padded), Tok(","),
      TokStr(S_extra), Tok(":"), TokNum(1), Tok("}")>>
ElemBlankDue ==
    <<Tok("{"), TokStr(K_task), Tok(":"), TokStr(S_a), Tok(","),
      TokStr(K_due), Tok(":"), TokStr(S_blank), Tok("}")>>
ElemDue ==
    <<Tok("{"), TokStr(K_task), Tok(":"), TokStr(S_a), Tok(","),
      TokStr(K_done), Tok(":"), Tok("true"), Tok(","),
      TokStr(K_due), Tok(":"), TokStr(S_x), Tok("}")>>
ElemDated ==
    <<Tok("{"), TokStr(K_task), Tok(":"), TokStr(S_a), Tok(","),
      TokStr(K_due), Tok(":"), TokStr(S_date), Tok(","),
      TokStr(K_done), Tok(":"), TokNum(1), Tok("}")>>
ElemBlankTask ==
    <<Tok("{"), TokStr(K_task), Tok(":"), TokStr(S_blank), Tok(","),
      TokStr(K_done), Tok(":"), Tok("false"), Tok("}")>>
ElemString == <<TokStr(S_a)>>
ElemNoTask == <<Tok("{"), TokStr(K_done), Tok(":"), Tok("true"), Tok("}")>>
ElemNumTask ==
    <<Tok("{"), TokStr(K_task), Tok(":"), TokNum(1), Tok("}")>>
ElemZeroDone ==
    <<Tok("{"), TokStr(K_task), Tok(":"), TokStr(S_a), Tok(","),
      TokStr(K_done), Tok(":"), TokNum(0), Tok("}")>>
ElemNull == <<Tok("null")>>
ElemList == <<Tok("["), TokStr(K_task), Tok("]")>>
ElemEmptyDict == <<Tok("{"), Tok("}")>>

HandElems == {ElemPlain, ElemExtra, ElemBlankDue, ElemDated, ElemBlankTask, ElemString}

MoreElems ==
    HandElems \cup {ElemDue, ElemNoTask, ElemNumTask, ElemZeroDone, ElemNull, ElemList, ElemEmptyDict}

\* the sequences over S of length at most n
SeqsUpTo(S, n) == UNION {[1..k -> S] : k \in 0..n}

RECURSIVE JoinElems(_)
JoinElems(es) ==
    IF es = <<>> THEN <<>>
    ELSE IF Len(es) = 1 THEN es[1]
    ELSE es[1] \o <<Tok(",")>> \o JoinElems(Tail(es))

\* a JSON array of the given elements, as text
ArrayText(es) == <<Tok("[")>> \o JoinElems(es) \o <<Tok("]")>>

\* files that are no JSON array: not there, not text, not JSON, cut short,
\* a JSON object
OddFiles ==
    {Absent, File(<<Tok("bytes")>>), File(<<Tok("junk")>>), File(<<>>),
     File(<<Tok("["), Tok("{")>>), File(ElemPlain),
     File(ArrayText(<<ElemPlain>>) \o <<Tok("junk")>>),
     File(ArrayText(<<ElemExtra, ElemBlankTask, ElemString, ElemNoTask, ElemBlankDue, ElemDated>>))}

HandFiles == OddFiles \cup {File(ArrayText(es)) : es \in SeqsUpTo(HandElems, MaxHand)}

\* the same with every kind of element, one or two to a file
MoreFiles == OddFiles \cup {File(ArrayText(es)) : es \in SeqsUpTo(MoreElems, 2)}

(***************************************************************************)
(* The operations, each as one step: the handler runs to its end.  Every   *)
(* handler starts with todos = load_todos(); the result l of that call is  *)
(* a parameter of the operation, so that one state's file is read once.    *)
(***************************************************************************)
NoCall == [op |-> "", task |-> S_empty, due |-> PyNone, index |-> 0]

InitProcess ==
    /\ tmp = Absent
    /\ call = NoCall
    /\ out = ""
    /\ ret = PyNone
    /\ pc = "idle"
    /\ mem = <<>>
    /\ crashes = 0
    /\ staleTmp = FALSE

Init ==
    /\ target \in HandFiles
    /\ year = 2028
    /\ InitProcess

\* what an uncaught exception leaves behind: a traceback, and no file touched
Raise(exc) ==
    /\ out' = exc
    /\ UNCHANGED <<target, tmp>>

\* a call of save_todos that runs to its end
Saved(todos) ==
    /\ target' = save_todos(todos)
    /\ tmp' = Absent

\* the new dict of add_todo (lines 108-112)
NewTodo(task, parsed_due) ==
    LET todo == (K_task :> PyStr(task)) @@ (K_done :> PyBool(FALSE)) IN
    IF parsed_due = PyNone THEN PyDict(todo) ELSE PyDict(todo @@ (K_due :> parsed_due))

\* `if due:' on line 109
DueGiven(due) == Truthy(due)

\* add_todo(task, due): the outcome as [msg, todos]
AddOutcome(todos, task, due, thisYear) ==
    IF DueGiven(due)
    THEN LET parsed_due == parse_date(due.s, thisYear) IN
         IF Truthy(parsed_due)
         THEN [msg |-> "Added", todos |-> Append(todos, NewTodo(task, parsed_due))]
         ELSE [msg |-> "Invalid date format", todos |-> todos]
    ELSE [msg |-> "Added", todos |-> Append(todos, NewTodo(task, PyNone))]

add_todo(l, task, due) ==
    /\ call' = [op |-> "add", task |-> task, due |-> due, index |-> 0]
    /\ IF l.exc # "" THEN Raise(l.exc)
       ELSE LET o == AddOutcome(l.todos, task, due, year) IN
            IF o.msg = "Added"
            THEN /\ Len(l.todos) < MaxLen
                 /\ Saved(o.todos)
                 /\ out' = o.msg
            ELSE /\ out' = o.msg
                 /\ UNCHANGED <<target, tmp>>
    /\ ret' = PyNone
    /\ UNCHANGED <<year, pc, mem, crashes, staleTmp>>

\* the range test of lines 125 and 136
ValidIndex(index, todos) == 1 <= index /\ index <= Len(todos)

\* a variant that rebuilds the record from its task, losing due
MarkDoneRebuilt(todos, index) ==
    [todos EXCEPT ![index] =
        PyDict((K_task :> todos[index].d[K_task]) @@ (K_done :> PyBool(TRUE)))]

\* todos[index - 1]["done"] = True
MarkDone(todos, index) ==
    [todos EXCEPT ![index] = PyDict((K_done :> PyBool(TRUE)) @@ todos[index].d)]

\* a variant that pops todos[index], one position too far
PopNext(todos, index) == SubSeq(todos, 1, index) \o SubSeq(todos, index + 2, Len(todos))

\* todos.pop(index - 1)
Pop(todos, index) == SubSeq(todos, 1, index - 1) \o SubSeq(todos, index + 1, Len(todos))

\* a variant that saves what it loaded before it reports a bad index
complete_todo_resaves(l, index) ==
    /\ call' = [op |-> "done", task |-> S_empty, due |-> PyNone, index |-> index]
    /\ IF l.exc # "" THEN Raise(l.exc)
       ELSE IF ValidIndex(index, l.todos)
       THEN /\ Saved(MarkDone(l.todos, index))
            /\ out' = "Completed"
       ELSE /\ Saved(l.todos)
            /\ out' = "Invalid todo number"
    /\ ret' = PyNone
    /\ UNCHANGED <<year, pc, mem, crashes, staleTmp>>

complete_todo(l, index) ==
    /\ call' = [op |-> "done", task |-> S_empty, due |-> PyNone, index |-> index]
    /\ IF l.exc # "" THEN Raise(l.exc)
       ELSE IF ValidIndex(index, l.todos)
       THEN /\ Saved(MarkDone(l.todos, index))
            /\ out' = "Completed"
       ELSE /\ out' = "Invalid todo number"
            /\ UNCHANGED <<target, tmp>>
    /\ ret' = PyNone
    /\ UNCHANGED <<year, pc, mem, crashes, staleTmp>>

remove_todo(l, index) ==
    /\ call' = [op |-> "remove", task |-> S_empty, due |-> PyNone, index |-> index]
    /\ IF l.exc # "" THEN Raise(l.exc)
       ELSE IF ValidIndex(index, l.todos)
       THEN /\ Saved(Pop(l.todos, index))
            /\ out' = "Removed"
       ELSE /\ out' = "Invalid todo number"
            /\ UNCHANGED <<target, tmp>>
    /\ ret' = PyNone
    /\ UNCHANGED <<year, pc, mem, crashes, staleTmp>>

\* list_todos(): reads, prints, writes nothing; the rows printed are kept
\* as the todos they show
list_todos ==
    /\ call' = [op |-> "list", task |-> S_empty, due |-> PyNone, index |-> 0]
    /\ LET l == load_todos(target) IN
       IF l.exc # "" THEN out' = l.exc /\ ret' = PyNone
       ELSE IF l.todos = <<>> THEN out' = "No todos yet" /\ ret' = PyList(<<>>)
       ELSE out' = "Your Todos" /\ ret' = PyList(l.todos)
    /\ UNCHANGED <<target, tmp, year, pc, mem, crashes, staleTmp>>

Add ==
    LET l == load_todos(target) IN
    \E task \in Tasks, due \in DueArgs : add_todo(l, task, due)
Complete ==
    LET l == load_todos(target) IN
    \E index \in Indices : complete_todo(l, index)
Remove ==
    LET l == load_todos(target) IN
    \E index \in Indices : remove_todo(l, index)
List == list_todos

Next == Add \/ Complete \/ Remove \/ List

Spec == Init /\ [][Next]_vars

(***************************************************************************)
(* The store called on its own: save_todos(records) with records of the    *)
(* caller's making, and load_todos().                                      *)
(***************************************************************************)
Record(task, done) == PyDict((K_task :> PyStr(task)) @@ (K_done :> PyBool(done)))
RecordDue(task, done, due) ==
    PyDict((K_task :> PyStr(task)) @@ (K_done :> PyBool(done)) @@ (K_due :> PyStr(due)))

\* records handed to save_todos
RecordPool ==
    {Record(S_a, FALSE), RecordDue(S_padded, TRUE, S_x), RecordDue(S_a, FALSE, S_blank),
     RecordDue(S_a, TRUE, S_date), Record(S_blank, FALSE), RecordDue(S_a, FALSE, S_empty)}

SaveInputs == SeqsUpTo(RecordPool, MaxLen)

\* what a call that raised returns
Raised(exc) == [ty |-> "raise", exc |-> exc]

InitStore ==
    /\ target \in MoreFiles
    /\ year = 2028
    /\ InitProcess

SaveCall ==
    \E records \in SaveInputs :
        /\ call' = [op |-> "save", task |-> S_empty, due |-> PyNone, index |-> 0]
        /\ mem' = records
        /\ Saved(records)
        /\ out' = ""
        /\ ret' = PyNone
        /\ UNCHANGED <<year, pc, crashes, staleTmp>>

LoadCall ==
    /\ call' = [op |-> "load", task |-> S_empty, due |-> PyNone, index |-> 0]
    /\ LET l == load_todos(target) IN
       /\ out' = l.exc
       /\ ret' = IF l.exc # "" THEN Raised(l.exc) ELSE PyList(l.todos)
    /\ UNCHANGED <<target, tmp, year, pc, mem, crashes, staleTmp>>

NextStore == SaveCall \/ LoadCall

SpecStore == InitStore /\ [][NextStore]_vars

(***************************************************************************)
(* parse_date called on its own.                                           *)
(***************************************************************************)
Slash(a, b) == a \o <<"/">> \o b
Dash(a, b) == a \o <<"-">> \o b

DateInputs ==
    {Slash(TwoDigits(m), TwoDigits(d)) : m \in 0..13, d \in 0..32}
    \cup {Slash(Decimal(m), Decimal(d)) : m \in {1, 2, 12}, d \in {1, 9, 29, 30}}
    \cup {Dash(Dash(Decimal(y), TwoDigits(m)), TwoDigits(d)) :
            y \in {999, 2027, 2028}, m \in {1, 2, 12, 13}, d \in {1, 29, 31}}
    \cup {Slash(Slash(TwoDigits(m), TwoDigits(d)), Decimal(y)) :
            y \in {999, 2027, 2028}, m \in {1, 2, 12, 13}, d \in {1, 29, 31}}
    \cup {S_empty, S_blank, S_x, Slash(TwoDigits(1), TwoDigits(15)) \o S_blank,
          Dash(Dash(TwoDigits(15), TwoDigits(1)), Decimal(2026)),
          Dash(Dash(<<"0", "0", "0", "0">>, TwoDigits(1)), TwoDigits(1)),
          Slash(TwoDigits(1), <<" ", "5">>)}

\* the call that is about to be made, with its argument
InitDate ==
    /\ target = Absent
    /\ tmp = Absent
    /\ year \in Years
    /\ \E s \in DateInputs :
          call = [op |-> "parse_date", task |-> S_empty, due |-> PyStr(s), index |-> 0]
    /\ out = ""
    /\ ret = PyNone
    /\ pc = "call"
    /\ mem = <<>>
    /\ crashes = 0
    /\ staleTmp = FALSE

ParseCall ==
    /\ pc = "call"
    /\ ret' = parse_date(call.due.s, year)
    /\ pc' = "returned"
    /\ UNCHANGED <<target, tmp, year, call, out, mem, crashes, staleTmp>>

NextDate == ParseCall

SpecDate == InitDate /\ [][NextDate]_vars

(***************************************************************************)
(* save_todos step by step, in a process that may be killed between any    *)
(* two steps: mkdir, open the temporary file for writing, write the text   *)
(* in pieces, os.replace.  A killed process leaves the files as they are;  *)
(* the next run starts from them.                                          *)
(***************************************************************************)
CrashFiles ==
    {Absent, File(<<Tok("junk")>>), File(ArrayText(<<ElemExtra, ElemString>>)),
     File(ArrayText(<<ElemPlain, ElemDated>>))}

InitCrash ==
    /\ target \in CrashFiles
    /\ year = 2028
    /\ InitProcess

\* the handler has reached save_todos(todos)
EnterSave(todos) ==
    /\ mem' = todos
    /\ pc' = "mkdir"
    /\ out' = ""
    /\ UNCHANGED <<target, tmp>>

\* the handler returns without saving
Return(msg) ==
    /\ out' = msg
    /\ UNCHANGED <<target, tmp, pc, mem>>

\* a run of the program up to its call of save_todos
Start ==
    /\ pc = "idle"
    /\ LET l == load_todos(target) IN
       \/ \E task \in {S_a}, due \in {PyNone, PyStr(S_x)} :
            /\ call' = [op |-> "add", task |-> task, due |-> due, index |-> 0]
            /\ IF l.exc # "" THEN Return(l.exc)
               ELSE LET o == AddOutcome(l.todos, task, due, year) IN
                    IF o.msg = "Added"
                    THEN Len(l.todos) < MaxLen /\ EnterSave(o.todos)
                    ELSE Return(o.msg)
       \/ \E index \in 0..1 :
            /\ call' = [op |-> "done", task |-> S_empty, due |-> PyNone, index |-> index]
            /\ IF l.exc # "" THEN Return(l.exc)
               ELSE IF ValidIndex(index, l.todos)
               THEN EnterSave(MarkDone(l.todos, index))
               ELSE Return("Invalid todo number")
       \/ \E index \in 0..1 :
            /\ call' = [op |-> "remove", task |-> S_empty, due |-> PyNone, index |-> index]
            /\ IF l.exc # "" THEN Return(l.exc)
               ELSE IF ValidIndex(index, l.todos)
               THEN EnterSave(Pop(l.todos, index))
               ELSE Return("Invalid todo number")
    /\ ret' = PyNone
    /\ UNCHANGED <<year, crashes, staleTmp>>

\* TODO_FILE.parent.mkdir(parents=True, exist_ok=True)
SaveMkdir ==
    /\ pc = "mkdir"
    /\ pc' = "open"
    /\ UNCHANGED <<target, tmp, year, call, out, ret, mem, crashes, staleTmp>>

\* a variant that opens TODO_FILE itself for writing
SaveOpenInPlace ==
    /\ pc = "open"
    /\ target' = File(<<>>)
    /\ staleTmp' = tmp.exists
    /\ pc' = "write"
    /\ UNCHANGED <<tmp, year, call, out, ret, mem, crashes>>

\* write_text opens tmp_path with mode "w": the file is created, or cut to
\* nothing when an earlier run left one there
SaveOpen ==
    /\ pc = "open"
    /\ tmp' = File(<<>>)
    /\ staleTmp' = tmp.exists
    /\ pc' = "write"
    /\ UNCHANGED <<target, year, call, out, ret, mem, crashes>>

\* the text reaches the temporary file in pieces: each write moves as much
\* as fits one piece, the last one what is left
SaveWrite ==
    /\ pc = "write"
    /\ LET data == json_dumps(mem)
           k == IF Len(tmp.toks) + MaxPiece < Len(data)
                THEN Len(tmp.toks) + MaxPiece ELSE Len(data)
       IN  /\ tmp' = File(SubSeq(data, 1, k))
           /\ pc' = IF k = Len(data) THEN "replace" ELSE "write"
    /\ UNCHANGED <<target, year, call, out, ret, mem, crashes, staleTmp>>

\* the message the handler prints after save_todos
Done(op) ==
    CASE op = "add" -> "Added"
      [] op = "done" -> "Completed"
      [] op = "remove" -> "Removed"

\* os.replace(tmp_path, TODO_FILE), and the handler's print
SaveReplace ==
    /\ pc = "replace"
    /\ target' = tmp
    /\ tmp' = Absent
    /\ out' = Done(call.op)
    /\ pc' = "idle"
    /\ UNCHANGED <<year, call, ret, mem, crashes, staleTmp>>

\* the process is killed
Interrupt ==
    /\ pc # "idle"
    /\ crashes < MaxCrashes
    /\ crashes' = crashes + 1
    /\ pc' = "idle"
    /\ out' = "killed"
    /\ UNCHANGED <<target, tmp, year, call, ret, mem, staleTmp>>

NextCrash == Start \/ SaveMkdir \/ SaveOpen \/ SaveWrite \/ SaveReplace \/ Interrupt

SpecCrash == InitCrash /\ [][NextCrash]_vars

(***************************************************************************)
(* Properties of the operations.  L is the collection load_todos returns   *)
(* for the file before the step, L2 the one it returns after it.           *)
(***************************************************************************)
Loaded(f) == load_todos(f).todos
Readable(f) == load_todos(f).exc = ""
InRange(i, L) == 1 <= i /\ i <= Len(L)
Keys == {K_task, K_done, K_due}
HasDue(todo) == K_due \in DOMAIN todo.d

BadDateAborts ==
    [][(/\ call'.op = "add"
        /\ Readable(target)
        /\ call'.due # PyNone
        /\ parse_date(call'.due.s, year) = PyNone)
       => (/\ out' = "Invalid date format"
           /\ target' = target)]_vars

\* C4: complete_todo with an index in range keeps length and order, sets
\* done of the record at index and nothing else of it, leaves every other
\* record as it was, and changes nothing when the record was done already.
CompleteSetsOnlyDone ==
    [][(/\ call'.op = "done"
        /\ Readable(target)
        /\ InRange(call'.index, Loaded(target)))
       => \A L \in {Loaded(target)}, L2 \in {Loaded(target')}, i \in {call'.index} :
              /\ out' = "Completed"
              /\ Readable(target')
              /\ Len(L2) = Len(L)
              /\ \A j \in 1..Len(L) : j # i => L2[j] = L[j]
              /\ DOMAIN L2[i].d = DOMAIN L[i].d
              /\ L2[i].d[K_done] = PyBool(TRUE)
              /\ L2[i].d[K_task] = L[i].d[K_task]
              /\ HasDue(L[i]) => L2[i].d[K_due] = L[i].d[K_due]
              /\ L[i].d[K_done] = PyBool(TRUE) => L2 = L]_vars

\* C4 witness: the first of two todos was completed; the second, which has
\* a due date, is still not done
FirstCompleted ==
    /\ call.op = "done"
    /\ call.index = 1
    /\ out = "Completed"
    /\ LET L == Loaded(target) IN
       /\ Len(L) = 2
       /\ L[1].d[K_done].b
       /\ ~L[2].d[K_done].b
       /\ L[2] = RecordDue(S_a, FALSE, S_date)

\* C5: remove_todo with an index in range leaves the records before index
\* where they were, moves the records after it down by one and changes no
\* record.
RemoveDeletesOne ==
    [][(/\ call'.op = "remove"
        /\ Readable(target)
        /\ InRange(call'.index, Loaded(target)))
       => \A L \in {Loaded(target)}, L2 \in {Loaded(target')}, i \in {call'.index} :
              /\ out' = "Removed"
              /\ Readable(target')
              /\ Len(L2) = Len(L) - 1
              /\ \A j \in 1..(i - 1) : L2[j] = L[j]
              /\ \A j \in i..Len(L2) : L2[j] = L[j + 1]]_vars

\* C5 witness: the first of three todos was removed; the two that were
\* second and third are now first and second
FirstRemoved ==
    /\ call.op = "remove"
    /\ call.index = 1
    /\ out = "Removed"
    /\ LET L == Loaded(target) IN
       /\ Len(L) = 2
       /\ L[1] = Record(S_a, FALSE)
       /\ L[2] = RecordDue(S_a, TRUE, S_date)

\* C6: add_todo with any task and a due argument that is absent or that
\* parse_date accepts leaves a file from which load_todos returns L
\* followed by one new record: the task, done false, and due as parsed.
AddAppends ==
    [][(/\ call'.op = "add"
        /\ Readable(target)
        /\ (call'.due = PyNone \/ parse_date(call'.due.s, year) # PyNone))
       => LET L == Loaded(target)
              L2 == Loaded(target')
              new == L2[Len(L2)]
          IN  /\ out' = "Added"
              /\ Readable(target')
              /\ Len(L2) = Len(L) + 1
              /\ \A j \in 1..Len(L) : L2[j] = L[j]
              /\ new.d[K_task] = PyStr(call'.task)
              /\ new.d[K_done] = PyBool(FALSE)
              /\ IF call'.due = PyNone
                 THEN DOMAIN new.d = {K_task, K_done}
                 ELSE /\ DOMAIN new.d = Keys
                      /\ new.d[K_due] = parse_date(call'.due.s, year)]_vars

\* C10: a step that reports success leaves a file written from the loaded
\* collection: a JSON array of dicts with no key but task, done and due,
\* each one a record load_todos returned before the step (the record it
\* completed, for complete_todo) or the record add_todo appended; a step
\* that reports anything else leaves the file as it was.
Succeeded(msg) == msg \in {"Added", "Completed", "Removed"}

WrittenFromLoaded ==
    [][/\ Succeeded(out') =>
            \A a \in {json_loads(target'.toks)}, L \in {Loaded(target)} :
                /\ target'.exists /\ a.ok /\ a.v.ty = "list"
                /\ \A i \in 1..Len(a.v.items) :
                      LET e == a.v.items[i] IN
                      /\ e.ty = "dict"
                      /\ DOMAIN e.d \subseteq Keys
                      /\ \/ call'.op = "add" /\ i = Len(a.v.items)
                         \/ /\ _normalize_todo(e) = e
                            /\ \E j \in 1..Len(L) :
                                  \/ e = L[j]
                                  \/ /\ call'.op = "done" /\ j = call'.index
                                     /\ e.d[K_task] = L[j].d[K_task]
       /\ ~Succeeded(out') => target' = target]_vars

\* C10 witness: a todo was completed in a collection longer than any that
\* add_todo builds here, so one loaded from the hand-edited file whose
\* other elements and keys are now gone from the file
HandEditsGone ==
    /\ out = "Completed"
    /\ Len(Loaded(target)) > MaxLen
    /\ target = save_todos(Loaded(target))

(***************************************************************************)
(* Properties of the store, of parse_date and of the interrupted save.     *)
(***************************************************************************)
IsStr(v) == v.ty = "str"
IsBool(v) == v.ty = "bool"

\* a record as section 3 of the specification words its invariants: task a
\* string that is not empty once trimmed, done a boolean, due (if there) a
\* string that is not empty
InvariantsAsWorded(r) ==
    /\ r.ty = "dict"
    /\ {K_task, K_done} \subseteq DOMAIN r.d /\ DOMAIN r.d \subseteq Keys
    /\ IsStr(r.d[K_task]) /\ strip(r.d[K_task].s) # <<>>
    /\ IsBool(r.d[K_done])
    /\ HasDue(r) => IsStr(r.d[K_due]) /\ r.d[K_due].s # <<>>

\* the same with due, if there, not empty once trimmed
InvariantsTrimmed(r) ==
    /\ InvariantsAsWorded(r)
    /\ HasDue(r) => strip(r.d[K_due].s) # <<>>

\* C7 as claimed: load_todos right after save_todos(records) returns
\* records, whenever every record has a task that is not blank, a boolean
\* done and a due that, if there, is a string that is not empty.
RoundTripAsWorded ==
    [][(/\ call.op = "save"
        /\ call'.op = "load"
        /\ \A i \in 1..Len(mem) : InvariantsAsWorded(mem[i]))
       => ret' = PyList(mem)]_vars

\* C7 as amended: the same for records whose due, if there, is a string
\* that is not empty once trimmed.
RoundTrip ==
    [][(/\ call.op = "save"
        /\ call'.op = "load"
        /\ \A i \in 1..Len(mem) : InvariantsTrimmed(mem[i]))
       => ret' = PyList(mem)]_vars

\* C7 witness: two records, one with a padded task and a due, were saved
\* and loaded back
RoundTripDone ==
    /\ call.op = "load"
    /\ target = save_todos(mem)
    /\ Len(mem) = 2
    /\ \A i \in 1..Len(mem) : InvariantsTrimmed(mem[i])
    /\ mem[2] = RecordDue(S_padded, TRUE, S_x)
    /\ mem[1] # mem[2]
    /\ ret = PyList(mem)

\* the elements of a sequence for which Normalize yields a record, each
\* normalized, in their order
RECURSIVE Survivors(_)
Survivors(items) ==
    IF items = <<>> THEN <<>>
    ELSE (IF _normalize_todo(Head(items)) = PyNone THEN <<>>
          ELSE <<_normalize_todo(Head(items))>>)
         \o Survivors(Tail(items))

\* the file holds text that is valid JSON
ValidJson(f) == ~Undecodable(f) /\ json_loads(f.toks).ok

WellFormed(r) ==
    /\ r.ty = "dict"
    /\ {K_task, K_done} \subseteq DOMAIN r.d /\ DOMAIN r.d \subseteq Keys
    /\ IsStr(r.d[K_task]) /\ strip(r.d[K_task].s) # <<>>
    /\ IsBool(r.d[K_done])
    /\ HasDue(r) => IsStr(r.d[K_due]) /\ strip(r.d[K_due].s) # <<>>

\* what C8 says load_todos returns for a file
LoadAsClaimed(f) ==
    IF ~f.exists \/ ~ValidJson(f) THEN PyList(<<>>)
    ELSE IF json_loads(f.toks).v.ty # "list" THEN PyList(<<>>)
    ELSE PyList(Survivors(json_loads(f.toks).v.items))

\* C8: for every content of the file load_todos returns the empty sequence
\* when the file is missing, is no valid JSON or is no array, and the
\* normalized valid elements in their order otherwise; every record it
\* returns is well formed.
LoadContract ==
    call.op = "load" =>
        /\ ret = LoadAsClaimed(target)
        /\ \A i \in 1..Len(ret.items) : WellFormed(ret.items[i])

\* the same, for the files whose bytes decode to text: holds
LoadContractOnText ==
    (call.op = "load" /\ ~Undecodable(target)) =>
        /\ ret = LoadAsClaimed(target)
        /\ \A i \in 1..Len(ret.items) : WellFormed(ret.items[i])

\* MM/DD names a day of the calendar of year y
ShortDates(y) ==
    {<<m, d>> \in (1..12) \X (1..31) : d <= DaysInMonth(y, m)}

\* C9: for every MM/DD that is a date of the current year (02/29 in a leap
\* year included) parse_date returns <current year>-MM-DD.
ShortFormParses ==
    (pc = "returned" /\ call.op = "parse_date") =>
        \A md \in ShortDates(year) :
            call.due.s = Slash(TwoDigits(md[1]), TwoDigits(md[2]))
            => ret = PyStr(Dash(Dash(Decimal(year), TwoDigits(md[1])), TwoDigits(md[2])))

\* the same, 02/29 left out: holds
ShortFormParsesButLeapDay ==
    (pc = "returned" /\ call.op = "parse_date") =>
        \A md \in ShortDates(year) \ {<<2, 29>>} :
            call.due.s = Slash(TwoDigits(md[1]), TwoDigits(md[2]))
            => ret = PyStr(Dash(Dash(Decimal(year), TwoDigits(md[1])), TwoDigits(md[2])))

\* C1: whatever step of whatever run is taken, interrupts included, the
\* file at TODO_FILE is left as it was or becomes the whole serialization
\* of the collection being saved; no step leaves a part of it there.
NeverPartial ==
    [][\/ target' = target
       \/ /\ target' = File(json_dumps(mem))
          /\ tmp = File(json_dumps(mem))]_vars

\* C1 witness: a run was killed, a later save found the temporary file the
\* killed run left behind, and it finished: the file holds the whole new
\* serialization and the temporary file is gone
SavedOverStaleTmp ==
    /\ crashes >= 1
    /\ staleTmp
    /\ pc = "idle"
    /\ out = "Added"
    /\ ~tmp.exists
    /\ target = File(json_dumps(mem))
    /\ Len(mem) >= 2

====
